---- MODULE Spec2Model ----
(***************************************************************************)
(* Model of src/src/pages/AISummaryWindow.tsx: the AI summary window of    *)
(* CipherTalk.  The window streams a completion into two buffers (the      *)
(* reasoning between "<think>" and "</think>", and the answer), shows a    *)
(* stored summary again by splitting its text in one pass, and keeps a     *)
(* history of stored summaries.                                            *)
(*                                                                         *)
(* Text is a sequence of one-character strings, so that includes(),        *)
(* split() and trim() are computed on characters as JavaScript does.       *)
(***************************************************************************)
EXTENDS Integers, Sequences, FiniteSets, TLC

VARIABLES
    sessionId,          \* useState sessionId (line 20)
    isGenerating,       \* useState isGenerating (line 27)
    summaryText,        \* useState summaryText (line 28): the answer buffer
    thinkText,          \* useState thinkText (line 29): the think buffer
    isThinking,         \* useState isThinking (line 30)
    showThink,          \* useState showThink (line 31)
    result,             \* useState result (line 32): the record on display, or NULL
    error,              \* useState error (line 33)
    history,            \* useState history (line 34)
    pc,                 \* where handleGenerate is suspended (its awaits)
    run,                \* number of handleGenerate invocations so far
    subs,               \* runs whose onSummaryChunk listener is still registered
    internalThinkMode,  \* the closure variable of each run's listener (line 177)
    apiKey,             \* the configured key that getAiApiKey() reads (line 159)
    script,             \* the text the completion service produces for each run
    stream,             \* text of the in-flight completion not yet delivered
    sent,               \* text of the current run delivered so far
    db,                 \* the records in the persistence layer, most recent first
    requested,          \* history: runs for which generateSummary was invoked
    classified,         \* history: text appended to either buffer, in order
    leftThinking,       \* history: a listener went from THINKING back to NORMAL
    cutInMarker,        \* history: a fragment boundary fell inside a whole marker
    showDeleteDialog,   \* useState showDeleteDialog (line 38)
    deleteTargetId,     \* useState deleteTargetId (line 39); 0 is null
    showRenameDialog,   \* useState showRenameDialog (line 40)
    renameTargetId,     \* useState renameTargetId (line 41); 0 is null
    renameValue,        \* useState renameValue (line 42)
    deleting,           \* the confirmDelete call in flight: its closure and its await
    renaming,           \* the confirmRename call in flight: its closure and its await
    alerted             \* the message of the alert() on screen; "" is none

\* The state of the two dialogs and of the calls they start.
dialogVars == <<showDeleteDialog, deleteTargetId, showRenameDialog,
                renameTargetId, renameValue, deleting, renaming, alerted>>

vars == <<sessionId, isGenerating, summaryText, thinkText, isThinking, showThink,
          result, error, history, pc, run, subs, internalThinkMode, apiKey,
          script, stream, sent, db, requested, classified, leftThinking,
          cutInMarker, dialogVars>>

----------------------------------------------------------------------------
(* Bounds of the model.                                                    *)

\* Longest input text of the streaming specification, in pieces.
MaxPieces == 3
\* Number of generation runs of the lifecycle specification.
MaxRuns == 2
\* Number of generation runs, and so of records, of the history
\* specification.
MaxRecords == 1

----------------------------------------------------------------------------
(* Text.                                                                   *)

\* The null of useState<SummaryResult | null> (line 32): a record no stored
\* record equals (stored ids start at 1).
NULL == [id |-> 0, summaryText |-> <<>>, customName |-> <<>>]

\* '<think>' (lines 190, 191, 404, 608, 609)
OPEN == <<"<", "t", "h", "i", "n", "k", ">">>
\* '</think>' (lines 204, 209, 404, 405, 608, 612)
CLOSE == <<"<", "/", "t", "h", "i", "n", "k", ">">>

\* The characters String.prototype.trim removes, as far as the inputs hold them.
WhiteSpace == {" ", "\n", "\t"}

\* s has m at position i.
MatchAt(s, m, i) ==
    /\ i + Len(m) - 1 <= Len(s)
    /\ \A j \in 1..Len(m) : s[i + j - 1] = m[j]

\* String.prototype.indexOf, 1-based; 0 when m does not occur in s.
IndexOf(s, m) ==
    IF \E i \in 1..Len(s) : MatchAt(s, m, i)
    THEN CHOOSE i \in 1..Len(s) :
            /\ MatchAt(s, m, i)
            /\ \A j \in 1..(i - 1) : ~MatchAt(s, m, j)
    ELSE 0

\* String.prototype.includes
Includes(s, m) == IndexOf(s, m) # 0

\* String.prototype.split with a non-empty separator: the pieces between the
\* successive occurrences of m, found left to right without overlap.
RECURSIVE Split(_, _)
Split(s, m) ==
    LET i == IndexOf(s, m)
    IN  IF i = 0
        THEN <<s>>
        ELSE <<SubSeq(s, 1, i - 1)>> \o Split(SubSeq(s, i + Len(m), Len(s)), m)

\* parts[1] || '' (lines 211, 406, 614): the second piece, '' when there is none.
SecondOrEmpty(parts) == IF Len(parts) >= 2 THEN parts[2] ELSE <<>>

RECURSIVE TrimStart(_)
TrimStart(s) ==
    IF s # <<>> /\ Head(s) \in WhiteSpace THEN TrimStart(Tail(s)) ELSE s

RECURSIVE TrimEnd(_)
TrimEnd(s) ==
    IF s # <<>> /\ s[Len(s)] \in WhiteSpace
    THEN TrimEnd(SubSeq(s, 1, Len(s) - 1))
    ELSE s

\* String.prototype.trim (line 640)
Trim(s) == TrimEnd(TrimStart(s))

RECURSIVE Concat(_)
Concat(ss) == IF ss = <<>> THEN <<>> ELSE Head(ss) \o Concat(Tail(ss))

----------------------------------------------------------------------------
(* The inputs: the texts the completion service may stream.                *)

\* The pieces the input texts are built from: each marker, a letter, a
\* blank and a proper prefix of the open-marker.
Pieces == {OPEN, CLOSE, <<"a">>, <<" ">>, <<"<", "t", "h">>}

\* The fragments of the scenario "Hello <th", "ink>deep ", "thoughts</thi", "nk>world".
ExampleSplit == <<"H", "e", "l", "l", "o", " ", "<", "t", "h", "i", "n", "k", ">", "d", "e", "e", "p", " ", "t", "h", "o", "u", "g", "h", "t", "s", "<", "/", "t", "h", "i", "n", "k", ">", "w", "o", "r", "l", "d">>
\* The fragments of the scenario "<think>", "still reasoning".
ExampleOpen == <<"<", "t", "h", "i", "n", "k", ">", "s", "t", "i", "l", "l", " ", "r", "e", "a", "s", "o", "n", "i", "n", "g">>

\* Every text of at most MaxPieces pieces, and the two scenarios.
Texts ==
    {Concat(f) : f \in UNION {[1..n -> Pieces] : n \in 0..MaxPieces}}
        \cup {ExampleSplit, ExampleOpen}

\* The texts of the lifecycle specification: one without a marker, one that
\* opens a reasoning block.
RunTexts == {<<"a", " ">>, OPEN \o <<"b">>}

\* The texts of the history specification are one letter each: the text of
\* the r-th run is the r-th letter.
RecordLetters == <<"a", "b", "c", "d">>

----------------------------------------------------------------------------
(* The streaming chunk handler and the one-shot split.                     *)

\* routePlain setting the buffer to the chunk part instead of appending it
\* (the setters of lines 219 and 221 without prev).
routePlain_overwrites(st, content) ==
    IF st.internalThinkMode
    THEN [st EXCEPT !.thinkText = content,
                    !.classified = @ \o content]
    ELSE [st EXCEPT !.summaryText = content,
                    !.classified = @ \o content]

\* routePlain with the test of line 218 inverted.
routePlain_inverted(st, content) ==
    IF ~st.internalThinkMode
    THEN [st EXCEPT !.thinkText = @ \o content,
                    !.classified = @ \o content]
    ELSE [st EXCEPT !.summaryText = @ \o content,
                    !.classified = @ \o content]

\* Lines 218-222 of the callback: a chunk part with no close-marker goes to
\* the buffer internalThinkMode selects.
routePlain(st, content) ==
    IF st.internalThinkMode
    THEN [st EXCEPT !.thinkText = @ \o content,
                    !.classified = @ \o content]
    ELSE [st EXCEPT !.summaryText = @ \o content,
                    !.classified = @ \o content]

\* The callback given to onSummaryChunk (lines 180-226), applied to one
\* chunk.  st holds the listener's closure variable internalThinkMode and
\* the React state the callback updates; classified and leftThinking are
\* history fields recording what the callback appended and whether it left
\* THINKING.  chunkCount (line 178) is only logged and is left out.
onSummaryChunk(st, chunk) ==
    LET hasOpen  == Includes(chunk, OPEN)
        parts    == Split(chunk, OPEN)
        \* lines 190-201
        s1 == IF hasOpen
              THEN [st EXCEPT !.summaryText = @ \o parts[1],
                              !.classified = @ \o parts[1],
                              !.internalThinkMode = TRUE,
                              !.isThinking = TRUE,
                              !.showThink = TRUE]
              ELSE st
        content  == IF hasOpen THEN parts[2] ELSE chunk
        parts2   == Split(content, CLOSE)
        thinkPart   == parts2[1]
        summaryPart == SecondOrEmpty(parts2)
    IN  IF Includes(content, CLOSE)
        THEN \* lines 204-216
             [s1 EXCEPT !.internalThinkMode = FALSE,
                        !.isThinking = FALSE,
                        !.showThink = FALSE,
                        !.thinkText = @ \o thinkPart,
                        !.summaryText = @ \o summaryPart,
                        !.classified = @ \o thinkPart \o summaryPart,
                        !.leftThinking = @ \/ s1.internalThinkMode]
        ELSE routePlain(s1, content)

\* classifyComplete with the text before the open-marker left out of
\* mainContent.
classifyComplete_dropsPre(content) ==
    IF Includes(content, OPEN) /\ Includes(content, CLOSE)
    THEN LET parts2 == Split(Split(content, OPEN)[2], CLOSE)
         IN  [thinkContent |-> parts2[1],
              mainContent  |-> SecondOrEmpty(parts2),
              hasThink     |-> TRUE]
    ELSE [thinkContent |-> <<>>, mainContent |-> content, hasThink |-> FALSE]

\* The split of the result panel (lines 603-616): thinkContent, mainContent
\* and hasThink for a stored text.
classifyComplete(content) ==
    IF Includes(content, OPEN) /\ Includes(content, CLOSE)
    THEN LET parts  == Split(content, OPEN)
             pre    == parts[1]
             rest   == parts[2]
             parts2 == Split(rest, CLOSE)
         IN  [thinkContent |-> parts2[1],
              mainContent  |-> pre \o SecondOrEmpty(parts2),
              hasThink     |-> TRUE]
    ELSE [thinkContent |-> <<>>, mainContent |-> content, hasThink |-> FALSE]

\* What the result panel hands to renderMarkdown as the answer (line 640).
renderedMain(content) == Trim(classifyComplete(content).mainContent)

\* The listeners the chunk event reaches, in the order they were registered.
RECURSIVE Emit(_, _, _, _)
Emit(st, modes, listeners, chunk) ==
    IF listeners = {}
    THEN [st |-> st, modes |-> modes]
    ELSE LET r  == CHOOSE x \in listeners : \A y \in listeners : x <= y
             s2 == onSummaryChunk([st EXCEPT !.internalThinkMode = modes[r]], chunk)
         IN  Emit(s2, [modes EXCEPT ![r] = s2.internalThinkMode],
                  listeners \ {r}, chunk)

----------------------------------------------------------------------------
(* The state after the window is mounted.                                  *)

\* No confirmDelete or confirmRename call is in flight.
NoCall == [stage |-> "none", target |-> 0, name |-> <<>>, result |-> NULL]

\* The messages alert() is given.
AlertDeleteFailed == "delete failed"  \* lines 313, 317
AlertRenameFailed == "rename failed"  \* lines 350, 354

\* The messages setError is given.
ErrNoSession == "no session"          \* line 70
ErrNoApiKey  == "no api key"          \* line 163
ErrFailed    == "generation failed"   \* line 252
ErrEmpty     == "empty result"        \* line 267
ErrException == "exception"           \* line 273

\* The state once the mount effect (lines 52-80) has run, for a service that
\* will stream script[r] in run r.  Without a sessionId in the URL the window
\* shows an error and nothing can be started.
InitWith(scripts) ==
    /\ sessionId \in {"", "s1"}
    /\ isGenerating = FALSE
    /\ summaryText = <<>>
    /\ thinkText = <<>>
    /\ isThinking = FALSE
    /\ showThink = TRUE
    /\ result = NULL
    /\ error = IF sessionId = "" THEN ErrNoSession ELSE ""
    /\ history = <<>>
    /\ pc = "idle"
    /\ run = 0
    /\ subs = {}
    /\ script \in scripts
    /\ internalThinkMode = [r \in 1..Len(script) |-> FALSE]
    /\ apiKey \in {"", "key"}
    /\ stream = <<>>
    /\ sent = <<>>
    /\ db = <<>>
    /\ requested = {}
    /\ classified = <<>>
    /\ leftThinking = FALSE
    /\ cutInMarker = FALSE
    /\ showDeleteDialog = FALSE
    /\ deleteTargetId = 0
    /\ showRenameDialog = FALSE
    /\ renameTargetId = 0
    /\ renameValue = <<>>
    /\ deleting = NoCall
    /\ renaming = NoCall
    /\ alerted = ""

\* The lifecycle specification: MaxRuns runs over the short texts.
Init == InitWith([1..MaxRuns -> RunTexts])

\* The streaming specification: one run over every input text.
InitStream == InitWith([1..1 -> Texts])

\* The liveness specification: MaxRuns runs over the same short text.
InitLive == InitWith({[r \in 1..MaxRuns |-> t] : t \in RunTexts})

\* The history specification: MaxRecords runs, each over a text of its own.
InitHistory == InitWith({[r \in 1..MaxRecords |-> <<RecordLetters[r]>>]})

----------------------------------------------------------------------------
(* handleGenerate (lines 144-276), one action per stretch between awaits.  *)

\* The setup panel, and with it the generate button, is rendered only while
\* there is no result and no run (line 453); the button is disabled without a
\* sessionId (line 491).
GenerateButtonShown == result = NULL /\ ~isGenerating /\ sessionId # ""

\* alert() (lines 313, 317, 350, 354) blocks the window until the message is
\* dismissed: no handler and no continuation of the window runs meanwhile.
Responsive == alerted = ""

\* A dialog is drawn as an overlay over the window (lines 669, 691): a click
\* outside the dialog box lands on the overlay, which closes the dialog, so
\* the window's own buttons can be clicked only while no dialog is shown.
Clickable == ~showDeleteDialog /\ ~showRenameDialog

\* Lines 145-157: the click, up to the first await.
HandleGenerateStart ==
    /\ Responsive
    /\ GenerateButtonShown
    /\ Clickable
    /\ pc = "idle"
    /\ run < Len(script)
    /\ run' = run + 1
    /\ isGenerating' = TRUE
    /\ error' = ""
    /\ summaryText' = <<>>
    /\ thinkText' = <<>>
    /\ isThinking' = FALSE
    /\ showThink' = TRUE
    /\ result' = NULL
    /\ pc' = "config"
    /\ sent' = <<>>
    /\ classified' = <<>>
    /\ leftThinking' = FALSE
    /\ cutInMarker' = FALSE
    /\ UNCHANGED <<sessionId, history, subs, internalThinkMode, apiKey, script,
                   stream, db, requested>>
    /\ UNCHANGED dialogVars

\* ApiKeyMissing without the return of line 165: the error is set and the
\* run goes on to register its listener and to invoke generateSummary.
ApiKeyMissing_noReturn ==
    /\ Responsive
    /\ pc = "config"
    /\ apiKey = ""
    /\ error' = ErrNoApiKey
    /\ isGenerating' = FALSE
    /\ internalThinkMode' = [internalThinkMode EXCEPT ![run] = FALSE]
    /\ subs' = subs \cup {run}
    /\ requested' = requested \cup {run}
    /\ stream' = script[run]
    /\ pc' = "generating"
    /\ UNCHANGED <<sessionId, summaryText, thinkText, isThinking, showThink,
                   result, history, run, apiKey, script, sent, db, classified,
                   leftThinking, cutInMarker>>
    /\ UNCHANGED dialogVars

\* Lines 162-166: no key is configured; the error is set and the run ends.
ApiKeyMissing ==
    /\ Responsive
    /\ pc = "config"
    /\ apiKey = ""
    /\ error' = ErrNoApiKey
    /\ isGenerating' = FALSE
    /\ pc' = "idle"
    /\ UNCHANGED <<sessionId, summaryText, thinkText, isThinking, showThink,
                   result, history, run, subs, internalThinkMode, apiKey, script,
                   stream, sent, db, requested, classified, leftThinking,
                   cutInMarker>>
    /\ UNCHANGED dialogVars

\* Lines 157-172 reject (the import or a configuration read): lines 271-275.
ConfigThrows ==
    /\ Responsive
    /\ pc = "config"
    /\ error' = ErrException
    /\ isGenerating' = FALSE
    /\ pc' = "idle"
    /\ UNCHANGED <<sessionId, summaryText, thinkText, isThinking, showThink,
                   result, history, run, subs, internalThinkMode, apiKey, script,
                   stream, sent, db, requested, classified, leftThinking,
                   cutInMarker>>
    /\ UNCHANGED dialogVars

\* Lines 169-243: the listener is registered with internalThinkMode false and
\* generateSummary is invoked; the service starts streaming script[run].
Subscribe ==
    /\ Responsive
    /\ pc = "config"
    /\ apiKey # ""
    /\ internalThinkMode' = [internalThinkMode EXCEPT ![run] = FALSE]
    /\ subs' = subs \cup {run}
    /\ requested' = requested \cup {run}
    /\ stream' = script[run]
    /\ pc' = "generating"
    /\ UNCHANGED <<sessionId, isGenerating, summaryText, thinkText, isThinking,
                   showThink, result, error, history, run, apiKey, script, sent,
                   db, classified, leftThinking, cutInMarker>>
    /\ UNCHANGED dialogVars

\* A fragment boundary after k more characters falls strictly inside an
\* occurrence of a marker in the text being streamed.
CutsMarker(k) ==
    LET text == sent \o stream
        p    == Len(sent) + k
    IN  \E m \in {OPEN, CLOSE} : \E i \in 1..Len(text) :
            MatchAt(text, m, i) /\ i <= p /\ p < i + Len(m) - 1

\* The service delivers the next non-empty fragment and every registered
\* listener handles it (lines 180-226).
DeliverChunk ==
    /\ Responsive
    /\ pc = "generating"
    /\ stream # <<>>
    /\ \E k \in 1..Len(stream) :
        LET chunk == SubSeq(stream, 1, k)
            st0   == [internalThinkMode |-> FALSE,
                      summaryText |-> summaryText, thinkText |-> thinkText,
                      isThinking |-> isThinking, showThink |-> showThink,
                      classified |-> classified, leftThinking |-> leftThinking]
            out   == Emit(st0, internalThinkMode, subs, chunk)
        IN  /\ stream' = SubSeq(stream, k + 1, Len(stream))
            /\ sent' = sent \o chunk
            /\ cutInMarker' = (cutInMarker \/ (k < Len(stream) /\ CutsMarker(k)))
            /\ internalThinkMode' = out.modes
            /\ summaryText' = out.st.summaryText
            /\ thinkText' = out.st.thinkText
            /\ isThinking' = out.st.isThinking
            /\ showThink' = out.st.showThink
            /\ classified' = out.st.classified
            /\ leftThinking' = out.st.leftThinking
    /\ UNCHANGED <<sessionId, isGenerating, result, error, history, pc, run, subs,
                   apiKey, script, db, requested>>
    /\ UNCHANGED dialogVars

\* cleanup() (line 248): the run's listener is removed.
Cleanup(listeners) == listeners \ {run}

\* GenerateThrows without the setIsGenerating(false) of line 274.
GenerateThrows_staysGenerating ==
    /\ Responsive
    /\ pc = "generating"
    /\ error' = ErrException
    /\ isGenerating' = isGenerating
    /\ pc' = "idle"
    /\ stream' = <<>>
    /\ UNCHANGED <<sessionId, summaryText, thinkText, isThinking, showThink,
                   result, history, run, subs, internalThinkMode, apiKey, script,
                   sent, db, requested, classified, leftThinking, cutInMarker>>
    /\ UNCHANGED dialogVars

\* generateSummary rejects: lines 271-275.  cleanup() is not reached.
GenerateThrows ==
    /\ Responsive
    /\ pc = "generating"
    /\ error' = ErrException
    /\ isGenerating' = FALSE
    /\ pc' = "idle"
    /\ stream' = <<>>
    /\ UNCHANGED <<sessionId, summaryText, thinkText, isThinking, showThink,
                   result, history, run, subs, internalThinkMode, apiKey, script,
                   sent, db, requested, classified, leftThinking, cutInMarker>>
    /\ UNCHANGED dialogVars

\* generateSummary resolves with success false: lines 248-255.
GenerateFails ==
    /\ Responsive
    /\ pc = "generating"
    /\ subs' = Cleanup(subs)
    /\ error' = ErrFailed
    /\ isGenerating' = FALSE
    /\ pc' = "idle"
    /\ stream' = <<>>
    /\ UNCHANGED <<sessionId, summaryText, thinkText, isThinking, showThink,
                   result, history, run, internalThinkMode, apiKey, script, sent,
                   db, requested, classified, leftThinking, cutInMarker>>
    /\ UNCHANGED dialogVars

\* generateSummary resolves with success true and no result: lines 248-250,
\* 265-269.
GenerateEmpty ==
    /\ Responsive
    /\ pc = "generating"
    /\ subs' = Cleanup(subs)
    /\ error' = ErrEmpty
    /\ isGenerating' = FALSE
    /\ pc' = "idle"
    /\ stream' = <<>>
    /\ UNCHANGED <<sessionId, summaryText, thinkText, isThinking, showThink,
                   result, history, run, internalThinkMode, apiKey, script, sent,
                   db, requested, classified, leftThinking, cutInMarker>>
    /\ UNCHANGED dialogVars

\* The record the service stores and returns for a finished run: the whole
\* streamed text under a fresh id.
NewRecord == [id |-> run, summaryText |-> sent, customName |-> <<>>]

\* generateSummary resolves with a result, after the whole text was
\* streamed: lines 248-262.  The service has stored the record.
GenerateSucceeds ==
    /\ Responsive
    /\ pc = "generating"
    /\ stream = <<>>
    /\ subs' = Cleanup(subs)
    /\ db' = <<NewRecord>> \o db
    /\ result' = NewRecord
    /\ pc' = "finishing"
    /\ UNCHANGED <<sessionId, isGenerating, summaryText, thinkText, isThinking,
                   showThink, error, history, run, internalThinkMode, apiKey,
                   script, stream, sent, requested, classified, leftThinking,
                   cutInMarker>>
    /\ UNCHANGED dialogVars

\* loadHistory (lines 131-141): the list is replaced when the query
\* succeeds (ok) and kept when it fails or throws.
loadHistory(ok) == IF ok THEN db ELSE history

\* Lines 262-269 on the success path: the history is reloaded and the run
\* ends.
HandleGenerateFinish ==
    /\ Responsive
    /\ pc = "finishing"
    /\ \E ok \in BOOLEAN : history' = loadHistory(ok)
    /\ isGenerating' = FALSE
    /\ pc' = "idle"
    /\ UNCHANGED <<sessionId, summaryText, thinkText, isThinking, showThink,
                   result, error, run, subs, internalThinkMode, apiKey, script,
                   stream, sent, db, requested, classified, leftThinking,
                   cutInMarker>>
    /\ UNCHANGED dialogVars

----------------------------------------------------------------------------
(* The title bar and the history list.                                     *)

\* The title buttons are rendered for a result outside a run (line 395).
TitleButtonsShown == result # NULL /\ ~isGenerating

\* handleBackToHistory without the setSummaryText('') of line 361.
HandleBackToHistory_keepsAnswer ==
    /\ Responsive
    /\ TitleButtonsShown
    /\ Clickable
    /\ result' = NULL
    /\ summaryText' = summaryText
    /\ thinkText' = <<>>
    /\ UNCHANGED <<sessionId, isGenerating, isThinking, showThink, error, history,
                   pc, run, subs, internalThinkMode, apiKey, script, stream, sent,
                   db, requested, classified, leftThinking, cutInMarker>>
    /\ UNCHANGED dialogVars

\* handleBackToHistory (lines 359-363).
HandleBackToHistory ==
    /\ Responsive
    /\ TitleButtonsShown
    /\ Clickable
    /\ result' = NULL
    /\ summaryText' = <<>>
    /\ thinkText' = <<>>
    /\ UNCHANGED <<sessionId, isGenerating, isThinking, showThink, error, history,
                   pc, run, subs, internalThinkMode, apiKey, script, stream, sent,
                   db, requested, classified, leftThinking, cutInMarker>>
    /\ UNCHANGED dialogVars

\* The regenerate button (lines 439-445).
Regenerate ==
    /\ Responsive
    /\ TitleButtonsShown
    /\ Clickable
    /\ result' = NULL
    /\ summaryText' = <<>>
    /\ thinkText' = <<>>
    /\ UNCHANGED <<sessionId, isGenerating, isThinking, showThink, error, history,
                   pc, run, subs, internalThinkMode, apiKey, script, stream, sent,
                   db, requested, classified, leftThinking, cutInMarker>>
    /\ UNCHANGED dialogVars

\* The setup panel, with the history list, is rendered when there is no
\* result outside a run (line 453).
SetupPanelShown == result = NULL /\ ~isGenerating

\* SelectHistoryItem displaying a copy of the record that keeps only its
\* reasoning part.
SelectHistoryItem_keepsThinkOnly ==
    /\ Responsive
    /\ SetupPanelShown
    /\ Clickable
    /\ \E i \in 1..Len(history) :
        result' = [history[i] EXCEPT
                      !.summaryText = classifyComplete(@).thinkContent]
    /\ UNCHANGED <<sessionId, isGenerating, summaryText, thinkText, isThinking,
                   showThink, error, history, pc, run, subs, internalThinkMode,
                   apiKey, script, stream, sent, db, requested, classified,
                   leftThinking, cutInMarker>>
    /\ UNCHANGED dialogVars

\* A click on a history item (lines 506-509); the list is part of the setup
\* panel (line 453).
SelectHistoryItem ==
    /\ Responsive
    /\ SetupPanelShown
    /\ Clickable
    /\ \E i \in 1..Len(history) : result' = history[i]
    /\ UNCHANGED <<sessionId, isGenerating, summaryText, thinkText, isThinking,
                   showThink, error, history, pc, run, subs, internalThinkMode,
                   apiKey, script, stream, sent, db, requested, classified,
                   leftThinking, cutInMarker>>
    /\ UNCHANGED dialogVars

\* The key is entered or removed in the settings, outside this window; it is
\* what getAiApiKey() (line 159) reads next.
ConfigureApiKey ==
    /\ apiKey' = IF apiKey = "" THEN "key" ELSE ""
    /\ UNCHANGED <<sessionId, isGenerating, summaryText, thinkText, isThinking,
                   showThink, result, error, history, pc, run, subs,
                   internalThinkMode, script, stream, sent, db, requested,
                   classified, leftThinking, cutInMarker>>
    /\ UNCHANGED dialogVars

----------------------------------------------------------------------------
(* Copying and exporting the displayed record.                             *)

\* The text the copy button works on (lines 403-407): the stored text, or
\* what follows its first close marker when it holds both markers.
copyContent(text) ==
    IF Includes(text, OPEN) /\ Includes(text, CLOSE)
    THEN SecondOrEmpty(Split(text, CLOSE))
    ELSE text

\* The copy button (lines 400-419): the clipboard is written, the state of
\* the window is not.
CopySummary ==
    /\ Responsive
    /\ TitleButtonsShown
    /\ Clickable
    /\ result.summaryText # <<>>
    /\ UNCHANGED vars

\* The export button (lines 422-436): the stored text is downloaded as it
\* is, the state of the window is not changed.
ExportSummary ==
    /\ Responsive
    /\ TitleButtonsShown
    /\ Clickable
    /\ result.summaryText # <<>>
    /\ UNCHANGED vars

----------------------------------------------------------------------------
(* Deleting a record of the history.                                       *)

\* The service's store without the record of that id.
Without(records, id) == SelectSeq(records, LAMBDA r : r.id # id)

\* handleDeleteHistory (lines 285-290), from the delete button of a history
\* item (lines 532-538).
HandleDeleteHistory ==
    /\ Responsive
    /\ SetupPanelShown
    /\ Clickable
    /\ \E i \in 1..Len(history) : deleteTargetId' = history[i].id
    /\ showDeleteDialog' = TRUE
    /\ UNCHANGED <<sessionId, isGenerating, summaryText, thinkText, isThinking,
                   showThink, result, error, history, pc, run, subs,
                   internalThinkMode, apiKey, script, stream, sent, db, requested,
                   classified, leftThinking, cutInMarker>>
    /\ UNCHANGED <<showRenameDialog, renameTargetId, renameValue, deleting,
                   renaming, alerted>>

\* The overlay or the cancel button of the delete dialog (lines 669, 678).
CancelDelete ==
    /\ Responsive
    /\ showDeleteDialog
    /\ showDeleteDialog' = FALSE
    /\ UNCHANGED <<sessionId, isGenerating, summaryText, thinkText, isThinking,
                   showThink, result, error, history, pc, run, subs,
                   internalThinkMode, apiKey, script, stream, sent, db, requested,
                   classified, leftThinking, cutInMarker>>
    /\ UNCHANGED <<deleteTargetId, showRenameDialog, renameTargetId, renameValue,
                   deleting, renaming, alerted>>

\* confirmDelete up to its first await (lines 293-299): the call keeps the
\* target and the result of the render it was clicked in.
ConfirmDeleteStart ==
    /\ Responsive
    /\ showDeleteDialog
    /\ deleting = NoCall
    /\ deleteTargetId # 0
    /\ deleting' = [stage |-> "deleting", target |-> deleteTargetId,
                    name |-> <<>>, result |-> result]
    /\ alerted' = alerted
    /\ UNCHANGED <<sessionId, isGenerating, summaryText, thinkText, isThinking,
                   showThink, result, error, history, pc, run, subs,
                   internalThinkMode, apiKey, script, stream, sent, db, requested,
                   classified, leftThinking, cutInMarker>>
    /\ UNCHANGED <<showDeleteDialog, deleteTargetId, showRenameDialog,
                   renameTargetId, renameValue, renaming>>

\* DeleteFails closing the dialog and forgetting the target, as lines
\* 310-311 do after a deletion.
DeleteFails_closesDialog ==
    /\ Responsive
    /\ deleting.stage = "deleting"
    /\ alerted' = AlertDeleteFailed
    /\ deleting' = NoCall
    /\ showDeleteDialog' = FALSE
    /\ deleteTargetId' = 0
    /\ UNCHANGED <<sessionId, isGenerating, summaryText, thinkText, isThinking,
                   showThink, result, error, history, pc, run, subs,
                   internalThinkMode, apiKey, script, stream, sent, db, requested,
                   classified, leftThinking, cutInMarker>>
    /\ UNCHANGED <<showRenameDialog, renameTargetId, renameValue, renaming>>

\* deleteSummary resolves with success false (lines 312-314).
DeleteFails ==
    /\ Responsive
    /\ deleting.stage = "deleting"
    /\ alerted' = AlertDeleteFailed
    /\ deleting' = NoCall
    /\ UNCHANGED <<sessionId, isGenerating, summaryText, thinkText, isThinking,
                   showThink, result, error, history, pc, run, subs,
                   internalThinkMode, apiKey, script, stream, sent, db, requested,
                   classified, leftThinking, cutInMarker>>
    /\ UNCHANGED <<showDeleteDialog, deleteTargetId, showRenameDialog,
                   renameTargetId, renameValue, renaming>>

\* deleteSummary rejects (lines 315-318).
DeleteThrows ==
    /\ Responsive
    /\ deleting.stage = "deleting"
    /\ alerted' = AlertDeleteFailed
    /\ deleting' = NoCall
    /\ UNCHANGED <<sessionId, isGenerating, summaryText, thinkText, isThinking,
                   showThink, result, error, history, pc, run, subs,
                   internalThinkMode, apiKey, script, stream, sent, db, requested,
                   classified, leftThinking, cutInMarker>>
    /\ UNCHANGED <<showDeleteDialog, deleteTargetId, showRenameDialog,
                   renameTargetId, renameValue, renaming>>

\* deleteSummary resolves with success true (lines 299-303): the service has
\* removed the record, and the history is being reloaded.
DeleteSucceeds ==
    /\ Responsive
    /\ deleting.stage = "deleting"
    /\ db' = Without(db, deleting.target)
    /\ deleting' = [deleting EXCEPT !.stage = "reloading"]
    /\ UNCHANGED <<sessionId, isGenerating, summaryText, thinkText, isThinking,
                   showThink, result, error, history, pc, run, subs,
                   internalThinkMode, apiKey, script, stream, sent, requested,
                   classified, leftThinking, cutInMarker>>
    /\ UNCHANGED <<showDeleteDialog, deleteTargetId, showRenameDialog,
                   renameTargetId, renameValue, renaming, alerted>>

\* Lines 303-311: the history is reloaded, the display is cleared when the
\* call's result is the deleted record, and the dialog is closed.
ConfirmDeleteFinish ==
    /\ Responsive
    /\ deleting.stage = "reloading"
    /\ \E ok \in BOOLEAN : history' = loadHistory(ok)
    /\ IF deleting.result # NULL /\ deleting.result.id = deleting.target
       THEN result' = NULL /\ summaryText' = <<>> /\ thinkText' = <<>>
       ELSE UNCHANGED <<result, summaryText, thinkText>>
    /\ showDeleteDialog' = FALSE
    /\ deleteTargetId' = 0
    /\ deleting' = NoCall
    /\ UNCHANGED <<sessionId, isGenerating, isThinking, showThink, error, pc, run,
                   subs, internalThinkMode, apiKey, script, stream, sent, db,
                   requested, classified, leftThinking, cutInMarker>>
    /\ UNCHANGED <<showRenameDialog, renameTargetId, renameValue, renaming,
                   alerted>>

----------------------------------------------------------------------------
(* Renaming a record of the history.                                       *)

\* The name a record without a custom name is offered under (line 525).
DefaultName == <<"7", "d">>

\* What the user may type into the rename input (line 701).
RenameInputs == {<<>>, <<" ">>, <<" ", "n", " ">>}

\* handleRenameHistory (lines 322-328), from the rename button of a history
\* item (lines 523-531).
HandleRenameHistory ==
    /\ Responsive
    /\ SetupPanelShown
    /\ Clickable
    /\ \E i \in 1..Len(history) :
        /\ renameTargetId' = history[i].id
        /\ renameValue' = IF history[i].customName # <<>>
                          THEN history[i].customName ELSE DefaultName
    /\ showRenameDialog' = TRUE
    /\ UNCHANGED <<sessionId, isGenerating, summaryText, thinkText, isThinking,
                   showThink, result, error, history, pc, run, subs,
                   internalThinkMode, apiKey, script, stream, sent, db, requested,
                   classified, leftThinking, cutInMarker>>
    /\ UNCHANGED <<showDeleteDialog, deleteTargetId, deleting, renaming, alerted>>

\* The user edits the name (line 701).
EditRenameValue ==
    /\ Responsive
    /\ showRenameDialog
    /\ \E v \in RenameInputs : renameValue' = v
    /\ UNCHANGED <<sessionId, isGenerating, summaryText, thinkText, isThinking,
                   showThink, result, error, history, pc, run, subs,
                   internalThinkMode, apiKey, script, stream, sent, db, requested,
                   classified, leftThinking, cutInMarker>>
    /\ UNCHANGED <<showDeleteDialog, deleteTargetId, showRenameDialog,
                   renameTargetId, deleting, renaming, alerted>>

\* The overlay, the cancel button or the Escape key of the rename dialog
\* (lines 691, 707-709, 714).
CancelRename ==
    /\ Responsive
    /\ showRenameDialog
    /\ showRenameDialog' = FALSE
    /\ UNCHANGED <<sessionId, isGenerating, summaryText, thinkText, isThinking,
                   showThink, result, error, history, pc, run, subs,
                   internalThinkMode, apiKey, script, stream, sent, db, requested,
                   classified, leftThinking, cutInMarker>>
    /\ UNCHANGED <<showDeleteDialog, deleteTargetId, renameTargetId, renameValue,
                   deleting, renaming, alerted>>

\* confirmRename up to its first await (lines 331-337), from the confirm
\* button or the Enter key: a blank name is not sent; the call keeps the
\* target, the trimmed name and the result of the render it was clicked in.
ConfirmRenameStart ==
    /\ Responsive
    /\ showRenameDialog
    /\ renaming = NoCall
    /\ renameTargetId # 0
    /\ Trim(renameValue) # <<>>
    /\ renaming' = [stage |-> "renaming", target |-> renameTargetId,
                    name |-> Trim(renameValue), result |-> result]
    /\ alerted' = alerted
    /\ UNCHANGED <<sessionId, isGenerating, summaryText, thinkText, isThinking,
                   showThink, result, error, history, pc, run, subs,
                   internalThinkMode, apiKey, script, stream, sent, db, requested,
                   classified, leftThinking, cutInMarker>>
    /\ UNCHANGED <<showDeleteDialog, deleteTargetId, showRenameDialog,
                   renameTargetId, renameValue, deleting>>

\* renameSummary resolves with success false (lines 349-351).
RenameFails ==
    /\ Responsive
    /\ renaming.stage = "renaming"
    /\ alerted' = AlertRenameFailed
    /\ renaming' = NoCall
    /\ UNCHANGED <<sessionId, isGenerating, summaryText, thinkText, isThinking,
                   showThink, result, error, history, pc, run, subs,
                   internalThinkMode, apiKey, script, stream, sent, db, requested,
                   classified, leftThinking, cutInMarker>>
    /\ UNCHANGED <<showDeleteDialog, deleteTargetId, showRenameDialog,
                   renameTargetId, renameValue, deleting>>

\* renameSummary rejects (lines 352-355).
RenameThrows ==
    /\ Responsive
    /\ renaming.stage = "renaming"
    /\ alerted' = AlertRenameFailed
    /\ renaming' = NoCall
    /\ UNCHANGED <<sessionId, isGenerating, summaryText, thinkText, isThinking,
                   showThink, result, error, history, pc, run, subs,
                   internalThinkMode, apiKey, script, stream, sent, db, requested,
                   classified, leftThinking, cutInMarker>>
    /\ UNCHANGED <<showDeleteDialog, deleteTargetId, showRenameDialog,
                   renameTargetId, renameValue, deleting>>

\* The service's store with the record of that id under a new name.
Renamed(records, id, name) ==
    [i \in 1..Len(records) |->
        IF records[i].id = id THEN [records[i] EXCEPT !.customName = name]
        ELSE records[i]]

\* renameSummary resolves with success true (lines 337-341): the service has
\* stored the name, and the history is being reloaded.
RenameSucceeds ==
    /\ Responsive
    /\ renaming.stage = "renaming"
    /\ db' = Renamed(db, renaming.target, renaming.name)
    /\ renaming' = [renaming EXCEPT !.stage = "reloading"]
    /\ UNCHANGED <<sessionId, isGenerating, summaryText, thinkText, isThinking,
                   showThink, result, error, history, pc, run, subs,
                   internalThinkMode, apiKey, script, stream, sent, requested,
                   classified, leftThinking, cutInMarker>>
    /\ UNCHANGED <<showDeleteDialog, deleteTargetId, showRenameDialog,
                   renameTargetId, renameValue, deleting, alerted>>

\* Lines 341-348: the history is reloaded, the displayed record takes the
\* new name when it is the call's result, and the dialog is closed.
ConfirmRenameFinish ==
    /\ Responsive
    /\ renaming.stage = "reloading"
    /\ \E ok \in BOOLEAN : history' = loadHistory(ok)
    /\ IF renaming.result # NULL /\ renaming.result.id = renaming.target
       THEN result' = [renaming.result EXCEPT !.customName = renaming.name]
       ELSE UNCHANGED result
    /\ showRenameDialog' = FALSE
    /\ renameTargetId' = 0
    /\ renameValue' = <<>>
    /\ renaming' = NoCall
    /\ UNCHANGED <<sessionId, isGenerating, summaryText, thinkText, isThinking,
                   showThink, error, pc, run, subs, internalThinkMode, apiKey,
                   script, stream, sent, db, requested, classified, leftThinking,
                   cutInMarker>>
    /\ UNCHANGED <<showDeleteDialog, deleteTargetId, deleting, alerted>>

\* The user dismisses the alert.
DismissAlert ==
    /\ alerted # ""
    /\ alerted' = ""
    /\ UNCHANGED <<sessionId, isGenerating, summaryText, thinkText, isThinking,
                   showThink, result, error, history, pc, run, subs,
                   internalThinkMode, apiKey, script, stream, sent, db, requested,
                   classified, leftThinking, cutInMarker>>
    /\ UNCHANGED <<showDeleteDialog, deleteTargetId, showRenameDialog,
                   renameTargetId, renameValue, deleting, renaming>>

----------------------------------------------------------------------------

\* Generating, displaying, copying and exporting.
Next ==
    \/ HandleGenerateStart
    \/ ApiKeyMissing
    \/ ConfigThrows
    \/ Subscribe
    \/ DeliverChunk
    \/ GenerateThrows
    \/ GenerateFails
    \/ GenerateEmpty
    \/ GenerateSucceeds
    \/ HandleGenerateFinish
    \/ HandleBackToHistory
    \/ Regenerate
    \/ SelectHistoryItem
    \/ ConfigureApiKey
    \/ CopySummary
    \/ ExportSummary

\* The whole window: Next and the two dialogs of the history list.
NextHistory ==
    \/ Next
    \/ HandleDeleteHistory
    \/ CancelDelete
    \/ ConfirmDeleteStart
    \/ DeleteFails
    \/ DeleteThrows
    \/ DeleteSucceeds
    \/ ConfirmDeleteFinish
    \/ HandleRenameHistory
    \/ EditRenameValue
    \/ CancelRename
    \/ ConfirmRenameStart
    \/ RenameFails
    \/ RenameThrows
    \/ RenameSucceeds
    \/ ConfirmRenameFinish
    \/ DismissAlert

Spec == Init /\ [][Next]_vars

SpecStream == InitStream /\ [][Next]_vars

SpecHistory == InitHistory /\ [][NextHistory]_vars

\* What handleGenerate does after its click: the continuations that run
\* once the promise it awaits is settled or a fragment event is delivered.
HandleGenerateContinues ==
    \/ ApiKeyMissing
    \/ ConfigThrows
    \/ Subscribe
    \/ DeliverChunk
    \/ GenerateThrows
    \/ GenerateFails
    \/ GenerateEmpty
    \/ GenerateSucceeds
    \/ HandleGenerateFinish

\* The lifecycle specification with every awaited call settling: a handler
\* that can continue does continue.
SpecLive == InitLive /\ [][Next]_vars /\ WF_vars(HandleGenerateContinues)

----------------------------------------------------------------------------
(* Properties.  The streaming properties are checked under SpecStream,     *)
(* the lifecycle properties under Spec.                                    *)

\* The whole text of the current run has been delivered and its completion
\* has not been handled yet.
StreamDone == pc \in {"generating", "finishing"} /\ stream = <<>>

\* The result panel, with the one-shot split, is rendered for a result
\* outside a run (line 599).
ResultPanelShown == result # NULL /\ ~isGenerating

\* The number of occurrences of marker m in text t.
Occurrences(t, m) == Cardinality({i \in 1..Len(t) : MatchAt(t, m, i)})

\* Text t holds neither marker.
NoMarker(t) == Occurrences(t, OPEN) = 0 /\ Occurrences(t, CLOSE) = 0

\* Text t holds exactly one open-marker and, after it, exactly one
\* close-marker.
OneBlock(t) ==
    /\ Occurrences(t, OPEN) = 1
    /\ Occurrences(t, CLOSE) = 1
    /\ IndexOf(t, OPEN) < IndexOf(t, CLOSE)

\* Text t holds at most one open-marker and at most one close-marker, in
\* that order when it holds both.
AtMostOneBlock(t) ==
    /\ Occurrences(t, OPEN) <= 1
    /\ Occurrences(t, CLOSE) <= 1
    /\ (Occurrences(t, OPEN) = 1 /\ Occurrences(t, CLOSE) = 1)
            => IndexOf(t, OPEN) < IndexOf(t, CLOSE)

\* For a text with one block: the reasoning between the markers, and the
\* text outside them.
Between(t) == SubSeq(t, IndexOf(t, OPEN) + Len(OPEN), IndexOf(t, CLOSE) - 1)
Outside(t) ==
    SubSeq(t, 1, IndexOf(t, OPEN) - 1)
        \o SubSeq(t, IndexOf(t, CLOSE) + Len(CLOSE), Len(t))

\* The fragment delivered by the step, as the text added to sent.
\* (Used in action formulas only.)
Delivered == SubSeq(sent', Len(sent) + 1, Len(sent'))

\* C1.  Streaming/one-shot equivalence: once every fragment of a text has
\* been handled, the think and answer buffers equal the (think, answer)
\* pair the one-shot split of the result panel gives for the whole text,
\* whatever the partition into fragments.
C1_StreamingEqualsOneShot ==
    StreamDone =>
        /\ thinkText = classifyComplete(sent).thinkContent
        /\ summaryText = classifyComplete(sent).mainContent

\* The think and answer text the scenario of C2 must end with.
ExampleThink == <<"d", "e", "e", "p", " ", "t", "h", "o", "u", "g", "h", "t", "s">>
ExampleAnswer == <<"H", "e", "l", "l", "o", " ", "w", "o", "r", "l", "d">>

\* C2.  Partial-marker non-leak: when a fragment boundary fell strictly
\* inside a marker of a text with one reasoning block, the run still ends
\* with the reasoning in the think buffer and the rest in the answer buffer,
\* no marker character in either; the text "Hello <think>deep
\* thoughts</think>world" ends with think "deep thoughts" and answer "Hello
\* world".
C2_PartialMarkerNonLeak ==
    (StreamDone /\ cutInMarker /\ OneBlock(sent)) =>
        /\ thinkText = Between(sent)
        /\ summaryText = Outside(sent)
        /\ sent = ExampleSplit =>
                (thinkText = ExampleThink /\ summaryText = ExampleAnswer)

\* The texts left when one occurrence of marker m is removed from t.
RemoveOne(t, m) ==
    {SubSeq(t, 1, i - 1) \o SubSeq(t, i + Len(m), Len(t)) :
        i \in {j \in 1..Len(t) : MatchAt(t, m, j)}}

\* The texts left when at most one open-marker and at most one close-marker
\* are removed from t.
MarkersRemovedOnce(t) ==
    {t} \cup RemoveOne(t, OPEN) \cup RemoveOne(t, CLOSE)
        \cup UNION {RemoveOne(u, CLOSE) : u \in RemoveOne(t, OPEN)}

\* C3.  Content conservation: at any point of a run the text appended to the
\* two buffers, in the order it was appended, is the input consumed so far
\* with the open-marker and the close-marker each removed at most once; no
\* other character is dropped or duplicated.
C3_ContentConservation ==
    pc \in {"generating", "finishing"} =>
        /\ classified \in MarkersRemovedOnce(sent)
        /\ Len(thinkText) + Len(summaryText) = Len(classified)

\* C4.  Mode is monotone within a run: mode is THINKING only after an
\* open-marker was consumed, and once a listener has gone from THINKING back
\* to NORMAL every later fragment leaves it NORMAL and is appended to the
\* answer buffer as ordinary text.
C4_ModeMonotone ==
    [][(pc = "generating" /\ sent' # sent) =>
            /\ internalThinkMode'[run] => Includes(sent', OPEN)
            /\ leftThinking =>
                    /\ ~internalThinkMode'[run]
                    /\ summaryText' = summaryText \o Delivered
                    /\ thinkText' = thinkText]_vars

\* The rendered text is the given text less leading and trailing white space.
OnlyWhiteSpaceLost(rendered, given) ==
    \E i \in 0..Len(given) : \E j \in i..Len(given) :
        /\ rendered = SubSeq(given, i + 1, j)
        /\ \A k \in (1..i) \cup ((j + 1)..Len(given)) : given[k] \in WhiteSpace
        /\ rendered # <<>> => (rendered[1] \notin WhiteSpace
                                /\ rendered[Len(rendered)] \notin WhiteSpace)

C6_UnterminatedReasoning ==
    [][(/\ pc = "generating"
        /\ sent' # sent
        /\ internalThinkMode[run]
        /\ ~Includes(sent \o stream, CLOSE)) =>
            /\ internalThinkMode'[run]
            /\ thinkText' = thinkText \o Delivered
            /\ summaryText' = summaryText]_vars

\* Putting the markers back around think, at some point of answer, gives
\* text; without a reasoning block answer is text.
Reassembles(hasThink, think, answer, text) ==
    IF hasThink
    THEN \E k \in 0..Len(answer) :
            SubSeq(answer, 1, k) \o OPEN \o think \o CLOSE
                \o SubSeq(answer, k + 1, Len(answer)) = text
    ELSE answer = text

\* C7 as stated.  Split completeness: for a stored text with at most one
\* open-marker and at most one close-marker in that order, the think and
\* answer texts the result panel shows reproduce the text exactly when the
\* markers are put back.
C7_SplitCompleteness ==
    (ResultPanelShown /\ AtMostOneBlock(result.summaryText)) =>
        Reassembles(classifyComplete(result.summaryText).hasThink,
                    classifyComplete(result.summaryText).thinkContent,
                    renderedMain(result.summaryText),
                    result.summaryText)

\* C7 as amended.  For such a text the thinkContent and mainContent the
\* split computes reproduce the text exactly when the markers are put back
\* (with only the open-marker present the text is mainContent, unsplit); the
\* answer handed to the renderer is mainContent less its leading and
\* trailing white space.
C7_SplitCompleteness_Amended ==
    (ResultPanelShown /\ AtMostOneBlock(result.summaryText)) =>
        /\ Reassembles(classifyComplete(result.summaryText).hasThink,
                       classifyComplete(result.summaryText).thinkContent,
                       classifyComplete(result.summaryText).mainContent,
                       result.summaryText)
        /\ OnlyWhiteSpaceLost(renderedMain(result.summaryText),
                              classifyComplete(result.summaryText).mainContent)

\* The stored text "Hello <think>deep thoughts</think>world", with text
\* before and after its one reasoning block, is on display and split.
C7_Witness ==
    /\ ResultPanelShown
    /\ result.summaryText = ExampleSplit
    /\ classifyComplete(result.summaryText).hasThink
    /\ classifyComplete(result.summaryText).thinkContent = ExampleThink
    /\ classifyComplete(result.summaryText).mainContent = ExampleAnswer

\* C8.  One run at a time: the generate button is not offered while a run is
\* active, and while a run streams, the only listener applying fragments to
\* the think and answer buffers is that run's own.
C8_OneRunAppliesFragments ==
    /\ isGenerating => ~GenerateButtonShown
    /\ pc = "generating" => subs = {run}

\* C9.  Fail-fast on missing configuration: when a start finds no key, the
\* run ends with the configuration error and isGenerating false, no listener
\* is registered for it and generateSummary is not invoked for it.
C9_FailFastOnMissingKey ==
    error = ErrNoApiKey =>
        /\ ~isGenerating
        /\ pc = "idle"
        /\ run \notin subs
        /\ run \notin requested

\* A second start found no key after a first run had invoked
\* generateSummary.
C9_Witness ==
    /\ error = ErrNoApiKey
    /\ run = 2
    /\ requested = {1}
    /\ ~isGenerating

\* C10.  A failure outcome of generateSummary (success false, no result, or
\* a rejection) surfaces an error, sets no result, stores nothing, ends the
\* run and discards the run's listener, so that its state is not changed
\* again.
C10_FailureDiscardsRun ==
    [][(pc = "generating" /\ pc' = "idle") =>
            /\ error' # ""
            /\ result' = NULL
            /\ db' = db
            /\ ~isGenerating'
            /\ run \notin subs']_vars

\* C11.  A close marker that arrives in normal mode when no open marker has
\* been seen is data: the mode stays normal, the fragment leaves thinkText
\* as it was, the fragment's text is appended to summaryText and no error
\* is set.
C11_CloseWithoutOpenIsData ==
    [][(/\ pc = "generating"
        /\ sent' # sent
        /\ ~internalThinkMode[run]
        /\ ~Includes(sent', OPEN)
        /\ Includes(Delivered, CLOSE)) =>
            /\ ~internalThinkMode'[run]
            /\ thinkText' = thinkText
            /\ summaryText' = summaryText \o Delivered
            /\ error' = error]_vars

\* The records of a list.
Stored(records) == {records[i] : i \in 1..Len(records)}

\* Every record the window holds or the service stores.
AllRecords ==
    Stored(db) \cup Stored(history) \cup ({result} \ {NULL})
        \cup ({deleting.result, renaming.result} \ {NULL})

\* Two lists hold the same records in the same order, names apart.
OnlyNamesDiffer(before, after) ==
    /\ Len(after) = Len(before)
    /\ \A i \in 1..Len(before) :
        /\ after[i].id = before[i].id
        /\ after[i].summaryText = before[i].summaryText

\* C12.  The text of a stored record is never mutated: whatever is selected,
\* redisplayed, copied, exported or renamed, every record in the store, in
\* the history list and on display carries the text its run streamed, and a
\* successful rename changes nothing of a record but its name.
C12_StoredTextNeverMutated ==
    /\ [](\A rec \in AllRecords : rec.summaryText = script[rec.id])
    /\ [][RenameSucceeds => OnlyNamesDiffer(db, db')]_vars
    /\ [][ConfirmRenameFinish =>
            (result' # result =>
                /\ result'.id = renaming.result.id
                /\ result'.summaryText = renaming.result.summaryText)]_vars

\* A record that was renamed is on display, with its text.
C12_Witness ==
    /\ ResultPanelShown
    /\ result.customName = <<"n">>
    /\ result.summaryText = <<RecordLetters[result.id]>>
    /\ db # <<>>
    /\ db[1].customName = <<"n">>

\* C13.  Going back to the history list and regenerating discard the output
\* without persisting: after either, result is null and both buffers are
\* empty, and neither stores, deletes or renames a record nor starts a call
\* that does.
C13_ResetDiscardsWithoutPersisting ==
    [][(HandleBackToHistory \/ Regenerate) =>
            /\ result' = NULL
            /\ summaryText' = <<>>
            /\ thinkText' = <<>>
            /\ db' = db
            /\ requested' = requested
            /\ deleting' = deleting
            /\ renaming' = renaming]_vars

\* The output of a successful run was discarded: its text was streamed and
\* its record is stored, and nothing of it is on display.
C13_Witness ==
    /\ pc = "idle"
    /\ run = 1
    /\ sent # <<>>
    /\ error = ""
    /\ Len(db) = 1
    /\ result = NULL
    /\ summaryText = <<>>
    /\ thinkText = <<>>

\* C14.  A failed delete or rename (success false, or a rejection) leaves
\* the history list, the displayed result, both buffers and the pending
\* target ids as they were, and the failure is shown to the user.
C14_FailedPersistenceKeepsState ==
    [][(DeleteFails \/ DeleteThrows \/ RenameFails \/ RenameThrows) =>
            /\ history' = history
            /\ result' = result
            /\ summaryText' = summaryText
            /\ thinkText' = thinkText
            /\ deleteTargetId' = deleteTargetId
            /\ renameTargetId' = renameTargetId
            /\ alerted' \in {AlertDeleteFailed, AlertRenameFailed}]_vars

\* A delete has failed: the alert is up, the dialog is still open on its
\* target and the record is still listed.
C14_Witness ==
    /\ alerted = AlertDeleteFailed
    /\ showDeleteDialog
    /\ deleteTargetId # 0
    /\ \E i \in 1..Len(history) : history[i].id = deleteTargetId
    /\ deleting = NoCall

\* C15.  No state crosses from one run into the next: when a run has
\* started and none of its fragments has arrived, both buffers are empty,
\* the error is cleared, result is null, and every listener that will
\* classify the run's fragments is in normal mode.
C15_NoCrossRunState ==
    (pc \in {"config", "generating"} /\ sent = <<>>) =>
        /\ summaryText = <<>>
        /\ thinkText = <<>>
        /\ error = ""
        /\ result = NULL
        /\ ~isThinking
        /\ \A r \in subs : ~internalThinkMode[r]

\* C16.  The listener is released on every terminal outcome of a run: at
\* most one listener is registered at any time, and none is registered when
\* no run is active.
C16_SubscriptionReleased ==
    /\ Cardinality(subs) <= 1
    /\ ~isGenerating => subs = {}

\* What follows the first open marker of a text.
AfterOpen(t) == SubSeq(t, IndexOf(t, OPEN) + Len(OPEN), Len(t))

\* C17.  A fragment that arrives in normal mode and holds an open marker
\* and a close marker after it is classified in one pass: the text before
\* the first open marker is appended to summaryText, the text from there to
\* the first close marker to thinkText, the text after that close marker to
\* summaryText, and the mode is normal afterwards.
C17_BothMarkersInOneFragment ==
    [][(/\ pc = "generating"
        /\ sent' # sent
        /\ ~internalThinkMode[run]
        /\ Includes(Delivered, OPEN)
        /\ Includes(AfterOpen(Delivered), CLOSE)) =>
            LET rest == AfterOpen(Delivered)
                j    == IndexOf(rest, CLOSE)
            IN  /\ summaryText' = summaryText
                        \o SubSeq(Delivered, 1, IndexOf(Delivered, OPEN) - 1)
                        \o SubSeq(rest, j + Len(CLOSE), Len(rest))
                /\ thinkText' = thinkText \o SubSeq(rest, 1, j - 1)
                /\ ~internalThinkMode'[run]]_vars

\* C18.  isGenerating brackets the run: it is true exactly from the click
\* that starts a run to the run's terminal event, and every started run
\* reaches isGenerating false once the calls it awaits are settled.
C18_IsGeneratingBracketsRun ==
    /\ [](isGenerating <=> pc # "idle")
    /\ isGenerating ~> ~isGenerating

\* A second run has ended by an exception after its request was sent.
C18_Witness ==
    /\ ~isGenerating
    /\ pc = "idle"
    /\ run = 2
    /\ 2 \in requested
    /\ error = ErrException

\* s is t or a beginning of t.
IsPrefix(s, t) == Len(s) <= Len(t) /\ SubSeq(t, 1, Len(s)) = s

\* C19.  The buffers are append-only within a run: from the registration of
\* the run's listener to the run's terminal event, every step leaves
\* thinkText and summaryText as they were or longer by a suffix.
C19_BuffersAppendOnly ==
    [][pc = "generating" =>
            /\ IsPrefix(thinkText, thinkText')
            /\ IsPrefix(summaryText, summaryText')]_vars

\* Both buffers have grown, fragment by fragment, and more is to come.
C19_Witness ==
    /\ pc = "generating"
    /\ stream = <<"w", "o", "r", "l", "d">>
    /\ thinkText = ExampleThink
    /\ summaryText = <<"H", "e", "l", "l", "o", " ">>

\* C20.  For every stored text, what the copy button takes (the stored text
\* with the reasoning removed) is, surrounding white space apart, the answer
\* the result panel shows for the same text, also when text precedes the
\* open marker.
C20_CopyEqualsDisplayedAnswer ==
    (TitleButtonsShown /\ result.summaryText # <<>>) =>
        Trim(copyContent(result.summaryText)) = renderedMain(result.summaryText)

\* C21.  After a delete that deleteSummary reports as successful, the
\* deleted record is neither listed in history nor shown as result, whether
\* the reload of the history succeeds or not.
C21_DeletedRecordIsGone ==
    [][ConfirmDeleteFinish =>
            /\ \A i \in 1..Len(history') : history'[i].id # deleting.target
            /\ result'.id # deleting.target]_vars

====
